---- MODULE Spec2Model ----
(***************************************************************************)
(* A model of package reload (src/reload.go): Do sets up a file watcher    *)
(* and a debounce timer per watched path, an event loop goroutine resets   *)
(* the timers, and Exec replaces the process image.                        *)
(*                                                                         *)
(* Paths and arguments are sequences of one-character strings, so that     *)
(* strings.HasPrefix, filepath.Dir and filepath.Abs are computed and not   *)
(* assumed.  Time is in milliseconds; a timer holds the time left until it *)
(* fires.                                                                  *)
(***************************************************************************)
EXTENDS Integers, Sequences, FiniteSets, TLC

\* ------------------------------------------------------------------ bounds
MaxErrors == 1      \* error items the log function is shown
MaxExec   == 2      \* invocations of Exec in one run
MaxCbRuns == 1      \* invocations of directory callbacks in one run
AgeCap    == 150    \* the age of the last change of a path is counted up to here

\* ------------------------------------------------------- program constants
Debounce == 100     \* 100 * time.Millisecond

TickSteps == {50, 100}

\* ------------------------------------------------------------ the file system
PRoot == <<"/">>
PA    == <<"/", "a">>
PAB   == <<"/", "a", "/", "b">>
PAF   == <<"/", "a", "/", "f">>
PT    == <<"/", "t">>
PT2   == <<"/", "t", "2">>
PTX   == <<"/", "t", "/", "x">>
PT2X  == <<"/", "t", "2", "/", "x">>
PN    == <<"/", "n">>
RelB  == <<"b">>
RelT  == <<"t">>
PTs   == <<"/", "t", "/">>

Cwd      == PRoot
ExePath  == PAB
FsDirs   == {PRoot, PA, PT, PT2}
FsFiles  == {PAB, PAF, PTX, PT2X}
Environ  == <<<<"H", "=", "1">>, <<"P", "=", "2">>>>

\* ------------------------------------------------------------ path functions
IsAbs(p) == Len(p) > 0 /\ p[1] = "/"

HasPrefix(s, prefix) ==
    Len(prefix) <= Len(s) /\ SubSeq(s, 1, Len(prefix)) = prefix

RECURSIVE LastSlash(_, _)
LastSlash(p, i) ==
    IF i = 0 THEN 0 ELSE IF p[i] = "/" THEN i ELSE LastSlash(p, i - 1)

\* filepath.Clean on paths without "." and ".." elements: repeated
\* separators collapse and a trailing separator is dropped.
RECURSIVE Squeeze(_)
Squeeze(p) ==
    IF Len(p) <= 1 THEN p
    ELSE LET r == Squeeze(SubSeq(p, 1, Len(p) - 1))
         IN  IF p[Len(p)] = "/" /\ r[Len(r)] = "/" THEN r
             ELSE Append(r, p[Len(p)])

Clean(p) ==
    IF Len(p) = 0 THEN <<".">>
    ELSE LET s == Squeeze(p)
         IN  IF Len(s) > 1 /\ s[Len(s)] = "/" THEN SubSeq(s, 1, Len(s) - 1)
             ELSE s

\* filepath.Dir
Dir(p) ==
    LET i == LastSlash(p, Len(p))
    IN  IF i = 0 THEN <<".">>
        ELSE IF i = 1 THEN <<"/">>
        ELSE Clean(SubSeq(p, 1, i - 1))

\* filepath.Join(dir, name)
Join(d, name) == Clean(d \o <<"/">> \o name)

\* filepath.Abs: cwdOk is whether os.Getwd succeeds.
Abs(p, cwdOk) ==
    IF IsAbs(p) THEN [path |-> Clean(p), err |-> FALSE]
    ELSE IF cwdOk THEN [path |-> Join(Cwd, p), err |-> FALSE]
    ELSE [path |-> <<>>, err |-> TRUE]

\* os.Stat and FileInfo.IsDir
StatErr(p) == p \notin (FsDirs \cup FsFiles)
StatIsDir(p) == p \in FsDirs

\* strings.TrimLeft(s, "/")
RECURSIVE TrimLeftSlash(_)
TrimLeftSlash(s) ==
    IF Len(s) > 0 /\ s[1] = "/" THEN TrimLeftSlash(Tail(s)) ELSE s

\* relpath: cwdOk is whether os.Getwd succeeds (it returns Cwd); when it
\* fails, and when Cwd is no prefix of p, p is returned as it is.
relpath(p, cwdOk) ==
    IF ~cwdOk THEN p
    ELSE IF HasPrefix(p, Cwd)
    THEN <<".", "/">> \o TrimLeftSlash(SubSeq(p, Len(Cwd) + 1, Len(p)))
    ELSE p

\* ------------------------------------------------------------------ inputs
Arg1 == <<"-", "v">>
Arg2 == <<"p">>
ArgsAbs == <<PAB, Arg1, Arg2>>
ArgsRel == <<RelB, Arg1>>

\* The additional ...dir argument of Do; cb names the callback of an entry.
MkDirs(paths) == [i \in 1..Len(paths) |-> [path |-> paths[i], cb |-> i]]

\* What the surroundings of the package do in a run: whether the
\* application calls Exec itself (app), whether the notification source
\* reports errors (errs), whether watcher.Close returns an error
\* (closeErr), and the position in dirs at which watcher.Add fails for a
\* reason of the operating system (addFail, 0 for none).
Quiet == [app |-> FALSE, errs |-> FALSE, closeErr |-> FALSE, addFail |-> 0]

\* The runs considered: os.Args, whether os.Executable() succeeds, whether
\* os.Getwd() succeeds (the working directory is there for the whole run
\* or for none of it), whether OnExec is set, the additional directories
\* given to Do, and the surroundings.
In(args, ok, cwd, hook, paths, env) ==
    [args |-> args, exeOK |-> ok, cwdOK |-> cwd, hook |-> hook,
     add |-> MkDirs(paths), env |-> env]
Inputs ==
    { In(ArgsAbs, TRUE,  TRUE,  FALSE, <<RelT, PT2>>, Quiet),
      In(ArgsRel, TRUE,  TRUE,  TRUE,  <<PA>>, Quiet),
      In(ArgsAbs, TRUE,  FALSE, FALSE, <<PT, PTs>>, Quiet),
      In(ArgsAbs, TRUE,  TRUE,  TRUE,  <<>>,
         [Quiet EXCEPT !.app = TRUE, !.errs = TRUE, !.closeErr = TRUE]),
      In(ArgsAbs, TRUE,  TRUE,  FALSE, <<>>, [Quiet EXCEPT !.app = TRUE]),
      In(ArgsRel, FALSE, TRUE,  TRUE,  <<>>, [Quiet EXCEPT !.app = TRUE]),
      In(ArgsRel, TRUE,  TRUE,  FALSE, <<PN>>, [Quiet EXCEPT !.app = TRUE]),
      In(ArgsAbs, TRUE,  TRUE,  TRUE,  <<PAF>>, Quiet),
      In(ArgsAbs, TRUE,  TRUE,  FALSE, <<PT, PN>>, Quiet),
      In(ArgsAbs, TRUE,  FALSE, FALSE, <<PT2, RelT>>, Quiet),
      In(ArgsAbs, TRUE,  TRUE,  FALSE, <<PT>>, [Quiet EXCEPT !.addFail = 2]),
      In(ArgsAbs, TRUE,  TRUE,  TRUE,  <<>>, [Quiet EXCEPT !.addFail = 1]) }

\* fsnotify.Op bits of an event
OpSets == { {"Create"}, {"Write", "Chmod"}, {"Remove"}, {"Rename"}, {"Chmod"} }

\* ------------------------------------------------------------------- state
VARIABLES
    osArgs,        \* os.Args
    exeOK,         \* whether os.Executable() succeeds
    cwdOK,         \* whether os.Getwd() succeeds
    env,           \* what the surroundings do in this run
    OnExec,        \* TRUE iff the OnExec hook is set
    additional,    \* Do's additional slice (paths become absolute, line 109)
    binSelf,       \* package variable; <<>> is the empty string
    closeWatcher,  \* package variable; TRUE iff non-nil
    watcher,       \* the fsnotify watcher: closed, watches
    timers,        \* Do's map path -> timer
    dirs,          \* Do's dirs slice
    doPc, doIdx, doErr,   \* where Do is, its loop index, the error it returned
    loopPc,        \* the event loop goroutine
    execs,         \* the invocations of Exec
    proc,          \* "running", "replaced" (syscall.Exec succeeded), "crashed"
    cbRunning,     \* per callback, the invocations now executing
    logs,          \* calls of the log function
    hist           \* history: what the properties read

vars == << osArgs, exeOK, cwdOK, env, OnExec, additional, binSelf, closeWatcher, watcher,
           timers, dirs, doPc, doIdx, doErr, loopPc, execs, proc, cbRunning,
           logs, hist >>

inputs == << osArgs, exeOK, cwdOK, env, OnExec >>

NoEv == <<>>

FreeExec == [pc |-> "free", origin |-> "none", execName |-> <<>>,
             steps |-> <<>>]

Init ==
    /\ \E in \in Inputs :
         /\ osArgs = in.args
         /\ exeOK = in.exeOK
         /\ cwdOK = in.cwdOK
         /\ env = in.env
         /\ OnExec = in.hook
         /\ additional = in.add
    /\ binSelf = <<>>
    /\ closeWatcher = FALSE
    /\ watcher = [closed |-> FALSE, watches |-> {}]
    /\ timers = << >>
    /\ dirs = << >>
    /\ doPc = "notcalled" /\ doIdx = 0 /\ doErr = "none"
    /\ loopPc = "notstarted"
    /\ execs = [e \in 1..MaxExec |-> FreeExec]
    /\ proc = "running"
    /\ cbRunning = [i \in DOMAIN additional |-> 0]
    /\ logs = [errors |-> 0, start |-> <<>>]
    /\ hist = [closeCalls |-> 0, hookRuns |-> 0, calls |-> <<>>,
               age |-> << >>, fires |-> << >>, burst |-> FALSE, cbRuns |-> 0,
               ev |-> NoEv, reset |-> {}, ran |-> {}]

\* ------------------------------------------------------------------ timers
\* The timer created to fire at once and not stopped.
startedTimer(cb) == [cb |-> cb, armed |-> TRUE, left |-> 0]

\* stoppedTimer: time.AfterFunc(math.MaxInt64, cb) followed by Stop.
stoppedTimer(cb) == [cb |-> cb, armed |-> FALSE, left |-> 0]

\* Reset as a bug would have it: a pending deadline is kept.
ResetKeepsPending(t, d) ==
    IF t.armed THEN t ELSE [t EXCEPT !.armed = TRUE, !.left = d]

\* (*time.Timer).Reset(d): the timer fires d from now, whatever was pending.
Reset(t, d) == [t EXCEPT !.armed = TRUE, !.left = d]

\* self(): os.Args[0] if absolute, else os.Executable().
self ==
    IF IsAbs(osArgs[1]) THEN [bin |-> osArgs[1], err |-> FALSE]
    ELSE IF exeOK THEN [bin |-> ExePath, err |-> FALSE]
    ELSE [bin |-> <<>>, err |-> TRUE]

\* ---------------------------------------------------------------------- Do
\* Lines 74-78: fsnotify.NewWatcher, closeWatcher = watcher.Close.
DoNewWatcher ==
    /\ proc = "running" /\ doPc = "notcalled"
    /\ \E ok \in BOOLEAN :
         IF ok
         THEN /\ closeWatcher' = TRUE
              /\ doPc' = "self"
              /\ UNCHANGED doErr
         ELSE /\ doPc' = "returned" /\ doErr' = "watcher"
              /\ UNCHANGED closeWatcher
    /\ UNCHANGED << inputs, additional, binSelf, watcher, timers, dirs, doIdx,
                    loopPc, execs, proc, cbRunning, logs, hist >>

\* Lines 80-91: the timers map, binSelf, the executable's timer, dirs[0].
DoSelf ==
    /\ proc = "running" /\ doPc = "self"
    /\ binSelf' = self.bin
    /\ IF self.err
       THEN /\ doPc' = "returned" /\ doErr' = "self"
            /\ UNCHANGED << timers, dirs, doIdx, hist >>
       ELSE /\ timers' = (self.bin :> stoppedTimer(0))
            /\ hist' = [hist EXCEPT !.age = (self.bin :> -1),
                                    !.fires = (self.bin :> 0)]
            /\ dirs' = [i \in 1..(Len(additional) + 1) |->
                          IF i = 1 THEN Dir(self.bin) ELSE <<>>]
            /\ doPc' = "validate" /\ doIdx' = 1
            /\ UNCHANGED doErr
    /\ UNCHANGED << inputs, additional, closeWatcher, watcher, loopPc, execs,
                    proc, cbRunning, logs >>

\* The validation without the IsDir test of line 104.
ValidateErrNoIsDir(p, cwdOk) ==
    LET a == Abs(p, cwdOk)
    IN  IF a.err THEN "abs"
        ELSE IF StatErr(a.path) THEN "stat"
        ELSE "none"

\* The error of one iteration of lines 94-107 for the entry path p.
ValidateErr(p, cwdOk) ==
    LET a == Abs(p, cwdOk)
    IN  IF a.err THEN "abs"
        ELSE IF StatErr(a.path) THEN "stat"
        ELSE IF ~StatIsDir(a.path) THEN "notdir"
        ELSE "none"

\* What the go statement of line 115 leaves the loop in.
LoopAfterGo == "running"

\* Lines 93-115: one iteration of the loop over additional; after the last
\* one, done := make(chan bool) and go func() { ... }().
DoValidate ==
    /\ proc = "running" /\ doPc = "validate"
    /\ IF doIdx > Len(additional)
       THEN /\ loopPc' = LoopAfterGo
            /\ doPc' = "add" /\ doIdx' = 1
            /\ UNCHANGED << additional, timers, dirs, doErr, hist >>
       ELSE   LET a   == additional[doIdx]
                  err == ValidateErr(a.path, cwdOK)
                  path == Abs(a.path, cwdOK).path
              IN  IF err # "none"
                  THEN /\ doPc' = "returned" /\ doErr' = err
                       /\ UNCHANGED << additional, timers, dirs, doIdx, hist,
                                       loopPc >>
                  ELSE /\ additional' = [additional EXCEPT ![doIdx].path = path]
                       /\ hist' = [hist EXCEPT
                            !.age = [k \in DOMAIN @ \cup {path} |->
                                       IF k \in DOMAIN @ THEN @[k] ELSE -1],
                            !.fires = [k \in DOMAIN @ \cup {path} |->
                                         IF k \in DOMAIN @ THEN @[k] ELSE 0]]
                       /\ dirs' = [dirs EXCEPT ![doIdx + 1] = path]
                       /\ timers' = [k \in DOMAIN timers \cup {path} |->
                                       IF k = path THEN stoppedTimer(a.cb)
                                       ELSE timers[k]]
                       /\ doIdx' = doIdx + 1
                       /\ UNCHANGED << doPc, doErr, loopPc >>
    /\ UNCHANGED << inputs, binSelf, closeWatcher, watcher, execs, proc,
                    cbRunning, logs >>

\* Lines 146-150: one watcher.Add(d), for the next d of dirs.  Add fails
\* on a closed watcher and where the operating system refuses it; Do
\* returns the first failure.  The loop goroutine, the timers and Exec run
\* between two of these steps.
DoAdd ==
    /\ proc = "running" /\ doPc = "add" /\ doIdx <= Len(dirs)
    /\ LET ok == ~watcher.closed /\ doIdx # env.addFail
       IN   IF ok
            THEN /\ watcher' = [watcher EXCEPT !.watches = @ \cup {dirs[doIdx]}]
                 /\ doIdx' = doIdx + 1
                 /\ UNCHANGED << doPc, doErr >>
            ELSE /\ doPc' = "returned" /\ doErr' = "add"
                 /\ UNCHANGED << watcher, doIdx >>
    /\ UNCHANGED << inputs, additional, binSelf, closeWatcher, timers, dirs,
                    loopPc, execs, proc, cbRunning, logs, hist >>

\* Lines 152-161: every directory is added; the startup message is logged
\* and Do blocks in <-done.  No code sends on done or closes it, so the
\* receive of line 161 never completes and line 162 is never reached.
DoLog ==
    /\ proc = "running" /\ doPc = "add" /\ doIdx > Len(dirs)
    /\ logs' = [logs EXCEPT !.start =
                  Append(@, [bin |-> relpath(binSelf, cwdOK),
                             add |-> [i \in 1..(Len(dirs) - 1) |->
                                        relpath(dirs[i + 1], cwdOK)]])]
    /\ doPc' = "waitDone"
    /\ UNCHANGED << inputs, additional, binSelf, closeWatcher, watcher, timers,
                    dirs, doIdx, doErr, loopPc, execs, proc, cbRunning, hist >>

\* ---------------------------------------------------------- the event loop
\* filepath.Dir of each path of the file system, computed once.
DirOf == [n \in FsDirs \cup FsFiles |-> Dir(n)]

\* The entries of a watched directory (watches are not recursive).
EventNames(d) == { n \in FsDirs \cup FsFiles : n # d /\ DirOf[n] = d }

\* The events the notification source can deliver: one for an entry of a
\* watched directory, while the watcher is open.
SourceEvents ==
    IF watcher.closed THEN {}
    ELSE { [name |-> n, op |-> op] :
             n \in UNION { EventNames(d) : d \in watcher.watches },
             op \in OpSets }

\* The trigger without the test of the event's kind.
TriggerAnyKind(ev) == TRUE

\* Line 128: event.Has(fsnotify.Write) || event.Has(fsnotify.Create)
Trigger(ev) == "Write" \in ev.op \/ "Create" \in ev.op

\* The matching with the executable's timer reset in the loop over the
\* additional directories too.
ResetKeysDirRestarts(ev) ==
    LET hit == { additional[i].path :
                   i \in { j \in DOMAIN additional :
                             HasPrefix(ev.name, additional[j].path) } }
    IN  (IF ev.name = binSelf \/ hit # {} THEN {binSelf} ELSE {}) \cup hit

\* Lines 133-141: the keys of the timers the event resets.
ResetKeys(ev) ==
    (IF ev.name = binSelf THEN {binSelf} ELSE {})
    \cup { additional[i].path :
             i \in { j \in DOMAIN additional :
                       HasPrefix(ev.name, additional[j].path) } }

\* The loop running the callbacks itself: it is at its select only when no
\* callback executes.
LoopReadySync ==
    loopPc = "running" /\ \A i \in DOMAIN cbRunning : cbRunning[i] = 0

\* Lines 115-117 and 193-194: the goroutine is at its select whenever it
\* runs; the callbacks are given to time.AfterFunc, which calls them in
\* goroutines of their own, so none of them holds the loop up.
LoopReady == loopPc = "running"

\* The loop returning on an error item.
LoopAfterErrorExits == "exited"

\* What an error item does to the loop (lines 118-122).
LoopAfterError == "running"

\* Lines 118-122: case err, ok := <-watcher.Errors, an error item.
LoopRecvError ==
    /\ proc = "running" /\ LoopReady
    /\ ~watcher.closed /\ watcher.watches # {}
    /\ env.errs /\ logs.errors < MaxErrors
    /\ logs' = [logs EXCEPT !.errors = @ + 1]
    /\ loopPc' = LoopAfterError
    /\ UNCHANGED << inputs, additional, binSelf, closeWatcher, watcher, timers,
                    dirs, doPc, doIdx, doErr, execs, proc, cbRunning, hist >>

\* Lines 119-121 and 124-126: a channel is closed, the goroutine returns.
LoopClosed ==
    /\ proc = "running" /\ LoopReady
    /\ watcher.closed
    /\ loopPc' = "exited"
    /\ UNCHANGED << inputs, additional, binSelf, closeWatcher, watcher, timers,
                    dirs, doPc, doIdx, doErr, execs, proc, cbRunning, logs,
                    hist >>

\* The kind of the event includes write or create.
IsWriteOrCreate(ev) == ev.op \cap {"Write", "Create"} # {}

Min(a, b) == IF a < b THEN a ELSE b

\* The path equals the executable's or has a registered directory as prefix.
Matches(name, k) ==
    \/ k = binSelf /\ name = binSelf
    \/ \E i \in DOMAIN additional :
         additional[i].path = k /\ HasPrefix(name, k)

\* The event is one the loop is to take for the timer of key k: its kind
\* includes write or create and its path matches k.
Qualifies(ev, k) == IsWriteOrCreate(ev) /\ Matches(ev.name, k)

\* A change of the executable continues a burst when the one before it is
\* less than the debounce time old and has not led to a restart.
InBurst ==
    /\ hist.age[self.bin] >= 0 /\ hist.age[self.bin] < Debounce
    /\ hist.fires[self.bin] = 0

\* The loop keeping in the map only the timers the event reset.
LoopTimersDropsOthers(keys) ==
    [k \in keys |-> Reset(timers[k], Debounce)]

\* Lines 133-141: the map after the event: the timers of keys are reset,
\* no entry is inserted or removed.
LoopTimers(keys) ==
    [k \in DOMAIN timers |->
       IF k \in keys THEN Reset(timers[k], Debounce) ELSE timers[k]]

\* Lines 123-141: case event, ok := <-watcher.Events, an event.  The
\* channel is unbuffered: the source hands the event over as the loop
\* receives it.
LoopRecvEvent ==
    /\ proc = "running" /\ LoopReady
    /\ \E ev \in SourceEvents :
         LET keys == IF Trigger(ev) THEN ResetKeys(ev) ELSE {}
         IN  /\ timers' = LoopTimers(keys)
             /\ hist' = [hist EXCEPT
                           !.age = [k \in DOMAIN timers |->
                                      IF Qualifies(ev, k) THEN 0 ELSE @[k]],
                           !.fires = [k \in DOMAIN timers |->
                                        IF Qualifies(ev, k) THEN 0 ELSE @[k]],
                           !.burst = IF Qualifies(ev, binSelf)
                                     THEN InBurst ELSE @,
                           !.ev = IF keys # {} THEN ev.name ELSE @,
                           !.reset = IF keys # {} THEN keys ELSE @]
    /\ UNCHANGED << inputs, additional, binSelf, closeWatcher, watcher, dirs,
                    doPc, doIdx, doErr, loopPc, execs, proc, cbRunning, logs >>

\* -------------------------------------------------------------------- Exec
FreeSlots == { e \in DOMAIN execs : execs[e].pc = "free" }
NextSlot  == CHOOSE e \in FreeSlots : \A f \in FreeSlots : e <= f

\* The name with the error of self() ignored.
ExecNameIgnoresErr ==
    IF binSelf # <<>> THEN [name |-> binSelf, err |-> FALSE, how |-> "cached"]
    ELSE [name |-> self.bin, err |-> FALSE, how |-> "fresh"]

\* Lines 170-177: the name Exec restarts; err when it panics instead.
ExecName ==
    IF binSelf # <<>> THEN [name |-> binSelf, err |-> FALSE, how |-> "cached"]
    ELSE IF self.err THEN [name |-> <<>>, err |-> TRUE, how |-> "panic: self"]
    ELSE [name |-> self.bin, err |-> FALSE, how |-> "fresh"]

\* Lines 179-181: whether Exec calls closeWatcher.
ExecCloses == closeWatcher

\* The hook skipped when closing the watcher failed.
ExecHooksUnlessCloseErr(closeErr) == OnExec /\ ~closeErr

\* Lines 183-185: whether Exec calls the hook; closeErr is what
\* closeWatcher returned.
ExecHooks(closeErr) == OnExec

\* Exec returning to its caller when syscall.Exec fails.
SyscallOutcomeReturns(ok) == IF ok THEN "replaced" ELSE "returned"

\* Lines 187-190: syscall.Exec returns only on failure, and then Exec panics.
SyscallOutcome(ok) == IF ok THEN "replaced" ELSE "panicked"

\* The argument list with os.Args whole, argv[0] not dropped.
ExecArgvAll(execName) == <<execName>> \o osArgs

\* Line 187: the argument list handed to syscall.Exec.
ExecArgv(execName) == <<execName>> \o Tail(osArgs)

\* A panic ends the process, in the timer's goroutine and in a caller's
\* (a caller that recovers from the panic of Exec is not modelled).
PanicProc == "crashed"

\* Lines 187-190 for the invocation record x: syscall.Exec(execName, argv,
\* os.Environ()) succeeds (ok) or fails; the invocation and the process
\* after it, and the call made.
Syscall(x, ok) ==
    LET out == SyscallOutcome(ok)
    IN  [exec |-> [x EXCEPT !.steps = Append(@, IF ok THEN "syscall"
                                                ELSE "syscallerr"),
                            !.pc = out],
         proc |-> CASE out = "replaced" -> "replaced"
                    [] out = "panicked" -> PanicProc
                    [] OTHER -> proc,
         call |-> [path |-> x.execName, argv |-> ExecArgv(x.execName),
                   env |-> Environ]]

\* Lines 169-177: Exec is entered in a new invocation and determines the
\* name to restart, or panics; the caller of this says what else the step
\* changes.
ExecBegin(origin) ==
    LET e == NextSlot
        n == ExecName
    IN  /\ FreeSlots # {}
        /\ execs' = [execs EXCEPT ![e] =
                       [pc |-> IF n.err THEN "panicked" ELSE "close",
                        origin |-> origin,
                        execName |-> n.name,
                        steps |-> <<n.how>>]]
        /\ proc' = IF n.err THEN PanicProc ELSE proc

\* A caller of the package calls Exec().
ExecCall ==
    /\ proc = "running" /\ env.app
    /\ ExecBegin("manual")
    /\ UNCHANGED << inputs, additional, binSelf, closeWatcher, watcher, timers,
                    dirs, doPc, doIdx, doErr, loopPc, cbRunning, logs, hist >>

\* Lines 179-181: closeWatcher() if it is set; what it returns is dropped.
\* Closing a watcher that is closed already returns no error.
ExecClose(e) ==
    /\ proc = "running" /\ execs[e].pc = "close"
    /\ LET closes == ExecCloses
           closeErr == env.closeErr /\ closes /\ ~watcher.closed
       IN    /\ watcher' = IF closes THEN [watcher EXCEPT !.closed = TRUE]
                           ELSE watcher
             /\ hist' = [hist EXCEPT
                           !.closeCalls = IF closes THEN @ + 1 ELSE @]
             /\ execs' = [execs EXCEPT
                            ![e].steps = Append(@, IF ~closes THEN "noclose"
                                                   ELSE IF closeErr
                                                   THEN "closeerr"
                                                   ELSE "close"),
                            ![e].pc = "hook"]
    /\ UNCHANGED << inputs, additional, binSelf, closeWatcher, timers, dirs,
                    doPc, doIdx, doErr, loopPc, proc, cbRunning, logs >>

\* Lines 183-190: with a hook set, OnExec() is called (line 184) and the
\* invocation is in it; with none, Exec goes on to syscall.Exec.
ExecHook(e) ==
    /\ proc = "running" /\ execs[e].pc = "hook"
    /\ IF ExecHooks(execs[e].steps[2] = "closeerr")
       THEN /\ execs' = [execs EXCEPT ![e].steps = Append(@, "hook"),
                                      ![e].pc = "inhook"]
            /\ hist' = [hist EXCEPT !.hookRuns = @ + 1]
            /\ UNCHANGED proc
       ELSE \E ok \in BOOLEAN :
              LET x == [execs[e] EXCEPT !.steps = Append(@, "nohook")]
                  sys == Syscall(x, ok)
              IN  /\ execs' = [execs EXCEPT ![e] = sys.exec]
                  /\ proc' = sys.proc
                  /\ hist' = [hist EXCEPT !.calls = Append(@, sys.call)]
    /\ UNCHANGED << inputs, additional, binSelf, closeWatcher, watcher, timers,
                    dirs, doPc, doIdx, doErr, loopPc, cbRunning, logs >>

\* Lines 184-190: the hook returns and Exec goes on to syscall.Exec.
ExecFinish(e) ==
    /\ proc = "running" /\ execs[e].pc = "inhook"
    /\ \E ok \in BOOLEAN :
         LET x == [execs[e] EXCEPT !.steps = Append(@, "hookret"),
                                   !.pc = "syscall"]
             sys == Syscall(x, ok)
         IN  /\ execs' = [execs EXCEPT ![e] = sys.exec]
             /\ proc' = sys.proc
             /\ hist' = [hist EXCEPT !.calls = Append(@, sys.call)]
    /\ UNCHANGED << inputs, additional, binSelf, closeWatcher, watcher, timers,
                    dirs, doPc, doIdx, doErr, loopPc, cbRunning, logs >>

\* ------------------------------------------------------- timers and time
\* The executable's timer is up: Exec is entered in the timer's goroutine
\* (lines 169-177); the watcher is still open.
TimerFireExec ==
    /\ proc = "running"
    /\ binSelf \in DOMAIN timers
    /\ timers[binSelf].cb = 0
    /\ timers[binSelf].armed /\ timers[binSelf].left = 0
    /\ timers' = [timers EXCEPT ![binSelf].armed = FALSE]
    /\ hist' = [hist EXCEPT !.fires = [@ EXCEPT ![binSelf] = @ + 1]]
    /\ ExecBegin("timer")
    /\ UNCHANGED << inputs, additional, binSelf, closeWatcher, watcher, dirs,
                    doPc, doIdx, doErr, loopPc, cbRunning, logs >>

\* A directory's timer is up: its callback runs in the timer's goroutine.
TimerFireDir(k) ==
    /\ proc = "running"
    /\ timers[k].cb # 0
    /\ timers[k].armed /\ timers[k].left = 0
    /\ hist.cbRuns < MaxCbRuns
    /\ timers' = [timers EXCEPT ![k].armed = FALSE]
    /\ cbRunning' = [cbRunning EXCEPT ![timers[k].cb] = @ + 1]
    /\ hist' = [hist EXCEPT !.cbRuns = @ + 1,
                            !.fires = [@ EXCEPT ![k] = @ + 1],
                            !.ran = @ \cup {timers[k].cb}]
    /\ UNCHANGED << inputs, additional, binSelf, closeWatcher, watcher, dirs,
                    doPc, doIdx, doErr, loopPc, execs, proc, logs >>

\* A directory's callback returns.
CbReturn(i) ==
    /\ proc = "running" /\ cbRunning[i] > 0
    /\ cbRunning' = [cbRunning EXCEPT ![i] = @ - 1]
    /\ UNCHANGED << inputs, additional, binSelf, closeWatcher, watcher, timers,
                    dirs, doPc, doIdx, doErr, loopPc, execs, proc, logs, hist >>

\* d milliseconds pass; a timer fires when its time is up, not later.
Tick(d) ==
    /\ proc = "running"
    /\ \E k \in DOMAIN timers : timers[k].armed
    /\ \A k \in DOMAIN timers : timers[k].armed => timers[k].left >= d
    /\ timers' = [k \in DOMAIN timers |->
                    IF timers[k].armed
                    THEN [timers[k] EXCEPT !.left = @ - d]
                    ELSE timers[k]]
    /\ hist' = [hist EXCEPT
                  !.age = [k \in DOMAIN @ |->
                             IF @[k] < 0 THEN @[k] ELSE Min(@[k] + d, AgeCap)]]
    /\ UNCHANGED << inputs, additional, binSelf, closeWatcher, watcher, dirs,
                    doPc, doIdx, doErr, loopPc, execs, proc, cbRunning, logs >>

\* ------------------------------------------------------------ specification
Next ==
    \/ DoNewWatcher \/ DoSelf \/ DoValidate \/ DoAdd \/ DoLog
    \/ LoopRecvError \/ LoopClosed \/ LoopRecvEvent
    \/ ExecCall
    \/ \E e \in DOMAIN execs : ExecClose(e)
    \/ \E e \in DOMAIN execs : ExecHook(e)
    \/ \E e \in DOMAIN execs : ExecFinish(e)
    \/ TimerFireExec
    \/ \E k \in DOMAIN timers : TimerFireDir(k)
    \/ \E i \in DOMAIN cbRunning : CbReturn(i)
    \/ \E d \in TickSteps : Tick(d)

Spec == Init /\ [][Next]_vars

\* ================================================================ properties
Exe == self.bin
Invocations == { e \in DOMAIN execs : execs[e].pc # "free" }
ExeRegistered == Exe \in DOMAIN timers

\* ------------------------------------------------------------------------ C1
\* C1: a burst of write/create events on the executable's path, each less
\* than 100 ms after the one before, followed by 100 ms without one, makes
\* the restart timer fire exactly once, 100 ms after the last event: no
\* fire before the last change is 100 ms old, one once it is older.
C1_DebounceOnce ==
    (ExeRegistered /\ hist.age[Exe] >= 0) =>
        /\ hist.fires[Exe] <= 1
        /\ hist.age[Exe] < Debounce => hist.fires[Exe] = 0
        /\ hist.age[Exe] > Debounce => hist.fires[Exe] = 1

\* A burst of two changes of the executable has led to one restart, 100 ms
\* after the second.
C1_Witness ==
    /\ ExeRegistered
    /\ hist.burst
    /\ hist.fires[Exe] = 1
    /\ hist.age[Exe] = Debounce

\* ------------------------------------------------------------------------ C2
\* C2: as long as no write/create of the executable's own path was seen and
\* Exec was not called by hand, no restart is under way whatever events
\* matched the additional directories: the restart timer is not armed, the
\* watcher was not closed, OnExec has not run, and the process image was
\* not replaced.
NoExeChange == ExeRegistered => hist.age[Exe] < 0

C2_DirNeverRestarts ==
    (NoExeChange /\ \A e \in Invocations : execs[e].origin # "manual") =>
        /\ Invocations = {}
        /\ ExeRegistered => ~timers[Exe].armed
        /\ hist.closeCalls = 0 /\ ~watcher.closed
        /\ hist.hookRuns = 0
        /\ hist.calls = <<>>
        /\ proc = "running"

\* A directory's callback has run after an event that is not a change of
\* the executable, and no restart has begun.
C2_Witness ==
    /\ ExeRegistered /\ hist.age[Exe] < 0
    /\ Invocations = {}
    /\ hist.cbRuns >= 1
    /\ hist.ev # <<>> /\ hist.ev # Exe

\* ------------------------------------------------------------------------ C3
CloseKinds == {"close", "closeerr", "noclose"}

\* The steps an invocation has taken so far are in the order of the
\* protocol: the name, then the close, then the hook, then syscall.Exec.
OrderedSteps(x) ==
    /\ x.steps[1] \in {"cached", "fresh"}
    /\ x.execName # <<>>
    /\ x.pc = "close" => Len(x.steps) = 1
    /\ x.pc # "close" =>
         /\ x.steps[2] \in CloseKinds
         /\ x.steps[2] \in {"close", "closeerr"} => watcher.closed
    /\ x.pc = "hook" => Len(x.steps) = 2
    /\ x.pc \notin {"close", "hook"} =>
         x.steps[3] = (IF OnExec THEN "hook" ELSE "nohook")
    /\ x.pc = "inhook" => Len(x.steps) = 3
    /\ x.pc \notin {"close", "hook", "inhook"} =>
         /\ OnExec => x.steps[4] = "hookret"
         /\ Len(x.steps) = (IF OnExec THEN 5 ELSE 4)
         /\ x.steps[Len(x.steps)] \in {"syscall", "syscallerr"}

\* C3: in every run of Exec the name is determined, then the watcher is
\* closed if closeWatcher is set, then the hook runs to its end if OnExec is
\* set (also when the close returned an error), and only then is the image
\* replacement attempted.
C3_ExecOrder ==
    /\ [](\A e \in Invocations :
            execs[e].steps[1] # "panic: self" => OrderedSteps(execs[e]))
    /\ [][\A e \in DOMAIN execs :
            (execs[e].pc = "close" /\ execs'[e].pc # "close")
            => /\ closeWatcher <=> execs'[e].steps[2] # "noclose"
               /\ closeWatcher => watcher'.closed]_vars
    /\ [](Len(hist.calls) = Cardinality(
            { e \in Invocations :
                execs[e].steps[Len(execs[e].steps)]
                  \in {"syscall", "syscallerr"} }))

\* The close returned an error, the hook ran to its end all the same, and
\* the image was replaced after it.
C3_Witness ==
    \E e \in Invocations :
        execs[e].steps = <<"cached", "closeerr", "hook", "hookret", "syscall">>

\* ------------------------------------------------------------------------ C4
\* C4: once Do has started (all directories subscribed, startup logged),
\* the closing of the notification stream ends the event loop and Do has
\* returned to its caller.
C4_DoReturnsOnClose ==
    (logs.start # <<>> /\ watcher.closed /\ loopPc = "exited"
     /\ proc = "running")
        => doPc = "returned"

\* ------------------------------------------------------------------------ C5
\* The absolute form of an entry's path, with the working directory known.
AbsForm(p) == IF IsAbs(p) THEN Clean(p) ELSE Clean(Cwd \o <<"/">> \o p)
BadEntry(a) == AbsForm(a.path) \notin FsDirs

\* C5: when an additional directory, at any position, does not exist, is a
\* regular file or cannot be made absolute, Do does not get past the
\* validation: it returns the error with no directory added to the watcher
\* and no event loop started.
C5_BadDirNoWatch ==
    /\ (\E i \in DOMAIN additional : BadEntry(additional[i])) =>
           /\ doPc \in {"notcalled", "self", "validate", "returned"}
           /\ watcher.watches = {}
           /\ loopPc = "notstarted"
    /\ (doPc = "returned" /\ doErr \in {"abs", "stat", "notdir"}) =>
           /\ watcher.watches = {}
           /\ loopPc = "notstarted"

\* Do returned the error of a second entry that does not exist, after the
\* first entry got its timer: nothing is watched and no loop runs.
C5_Witness ==
    /\ doPc = "returned" /\ doErr = "stat" /\ doIdx = 2
    /\ Cardinality(DOMAIN timers) = 2
    /\ watcher.watches = {} /\ loopPc = "notstarted"

\* ------------------------------------------------------------------------ C6
\* C6: when adding a directory to the watcher fails, Do returns the error
\* and no event loop goroutine is left running.
C6_AddFailNoLoop ==
    (doPc = "returned" /\ doErr = "add") => loopPc # "running"

\* ------------------------------------------------------------------------ C7
\* C7: Exec never returns to its caller: an invocation that is over ended
\* in the image replaced or in a panic, and the process does not go on.
C7_ExecNeverReturns ==
    \A e \in Invocations :
        /\ execs[e].pc \in {"close", "hook", "inhook", "replaced", "panicked"}
        /\ execs[e].pc = "replaced" => proc = "replaced"
        /\ execs[e].pc = "panicked" => proc = "crashed"
        /\ execs[e].steps[Len(execs[e].steps)] = "syscallerr"
             => execs[e].pc = "panicked"

\* syscall.Exec failed and Exec panicked.
C7_Witness ==
    \E e \in Invocations :
        /\ execs[e].steps[Len(execs[e].steps)] = "syscallerr"
        /\ execs[e].pc = "panicked" /\ proc = "crashed"

\* ------------------------------------------------------------------------ C8
\* The path self() is to find: os.Args[0] if absolute, else the answer of
\* the operating system.
ExpectedSelf == IF osArgs[1][1] = "/" THEN osArgs[1] ELSE ExePath

\* C8: every image replacement, also the one of an Exec called by hand
\* before Do ever ran, is given the resolved path of the executable, the
\* argument list of that path followed by os.Args[1:] unchanged, and the
\* whole environment.
C8_ExecArguments ==
    /\ \A i \in DOMAIN hist.calls :
         LET c == hist.calls[i]
         IN  /\ c.path = ExpectedSelf
             /\ Len(c.argv) = Len(osArgs)
             /\ c.argv[1] = ExpectedSelf
             /\ \A j \in 2..Len(osArgs) : c.argv[j] = osArgs[j]
             /\ c.env = Environ
    /\ \A e \in Invocations :
         execs[e].steps[1] = "fresh" => execs[e].execName = ExpectedSelf

\* Exec was called by hand before Do: the path came from the operating
\* system, no watcher was closed, and the image was replaced.
C8_Witness ==
    /\ doPc = "notcalled"
    /\ ~IsAbs(osArgs[1])
    /\ hist.closeCalls = 0
    /\ \E e \in Invocations :
         /\ execs[e].origin = "manual"
         /\ execs[e].pc = "replaced"
         /\ execs[e].steps[1] = "fresh" /\ execs[e].steps[2] = "noclose"
    /\ Len(hist.calls) = 1 /\ Len(hist.calls[1].argv) = 2

\* ------------------------------------------------------------------------ C9
\* C9: an error item is logged and does nothing else (the loop keeps
\* running, no timer changes, nothing is closed, no restart begins), and
\* the loop ends only when the watcher's channels are closed.
C9_ErrorsOnlyLogged ==
    /\ [][logs.errors' # logs.errors =>
            /\ logs.errors' = logs.errors + 1
            /\ loopPc = "running" /\ loopPc' = "running"
            /\ timers' = timers
            /\ watcher' = watcher
            /\ execs' = execs /\ proc' = proc
            /\ doPc' = doPc]_vars
    /\ [][(loopPc = "running" /\ loopPc' # "running") => watcher.closed]_vars

\* An error was logged and the loop is still there to take the next event.
C9_Witness ==
    /\ logs.errors >= 1
    /\ loopPc = "running"
    /\ ENABLED LoopRecvEvent

\* ----------------------------------------------------------------------- C10
\* The timer of k is armed anew in the step.
Rearmed(k) ==
    /\ timers'[k].armed
    /\ ~timers[k].armed \/ timers'[k].left > timers[k].left

\* C10: a timer is (re)armed only as the loop takes an event whose kind
\* includes write or create and whose path matches the timer's key; an
\* event of another kind, or one whose path matches no key, leaves every
\* timer as it was.
C10_OnlyMatchingChangeArms ==
    /\ [][\A k \in DOMAIN timers \cap DOMAIN timers' :
            Rearmed(k) =>
              /\ loopPc = "running"
              /\ hist'.age[k] = 0
              /\ timers'[k].left = Debounce]_vars
    /\ [](\A k \in DOMAIN timers : timers[k].armed => hist.age[k] >= 0)

\* Of three timers the loop armed the executable's, on a write or create
\* of the executable, and left the two others as they were created.
C10_Witness ==
    /\ DOMAIN timers = {PAB, PT, PT2}
    /\ hist.ev = PAB /\ hist.reset = {PAB}
    /\ timers[PAB].armed /\ timers[PAB].left = Debounce
    /\ \A k \in {PT, PT2} : ~timers[k].armed /\ hist.age[k] < 0

\* ----------------------------------------------------------------------- C11
\* The restart timer has fired and begun an Exec.
TimerRestart == \E e \in Invocations : execs[e].origin = "timer"

\* C11: in a restart the timer began, whatever calls of Exec and events are
\* interleaved with it, the OnExec hook is invoked once and not twice: at
\* most once while the process lives, exactly once when the image has
\* been replaced and a hook is set.
C11_HookOncePerRestart ==
    TimerRestart =>
        /\ hist.hookRuns <= 1
        /\ (proc = "replaced" /\ OnExec) => hist.hookRuns = 1

\* ----------------------------------------------------------------------- C12
\* C12: the watcher's close operation is invoked at most once, by Exec:
\* no interleaving of the Exec of the timer with an Exec called by hand
\* invokes it a second time.
C12_CloseOnce ==
    /\ hist.closeCalls >= 1 => Invocations # {}
    /\ TimerRestart => hist.closeCalls <= 1

\* ----------------------------------------------------------------------- C13
\* C13: a write or create of the executable's own path resets the restart
\* timer only, also when an additional directory is a prefix of that path:
\* the directory's timer is not reset by that event.
C13_ExeMatchPrecedence ==
    (ExeRegistered /\ hist.ev = Exe) =>
        hist.reset = {Exe}

\* ----------------------------------------------------------------------- C14
\* C14: for every entry of the additional directories, whatever the other
\* entries are, a burst of changes under its directory followed by 100 ms
\* of quiet runs the entry's own callback exactly once: nothing runs while
\* the last change is less than 100 ms old, one fire has happened once it
\* is older, never a second one, and what ran is that entry's callback.
C14_EntryCallbackOnce ==
    loopPc # "notstarted" =>
        \A i \in DOMAIN additional :
            LET p == additional[i].path
            IN  hist.age[p] >= 0 =>
                  /\ hist.fires[p] <= 1
                  /\ hist.age[p] < Debounce => hist.fires[p] = 0
                  /\ hist.age[p] > Debounce => hist.fires[p] = 1
                  /\ hist.fires[p] = 1 => i \in hist.ran

\* ----------------------------------------------------------------------- C15
\* C15: a callback runs on the thread of the event loop: while a callback
\* is executing the loop takes no event, and no two invocations of a
\* callback execute at the same time.
C15_CallbackOnLoopThread ==
    /\ (\E i \in DOMAIN cbRunning : cbRunning[i] > 0) => ~ENABLED LoopRecvEvent
    /\ \A i \in DOMAIN cbRunning : cbRunning[i] <= 1

\* C15 as amended: a callback runs on the goroutine of its timer and not
\* on the loop's: a callback that is executing was begun by the expiry of
\* a timer, and while it is executing the loop, if it runs and the watcher
\* is open, takes the next event all the same.
C15_CallbackOnTimerGoroutine ==
    \A i \in DOMAIN cbRunning :
        cbRunning[i] > 0 =>
          /\ i \in hist.ran
          /\ \E k \in DOMAIN timers : timers[k].cb = i
          /\ (/\ proc = "running" /\ loopPc = "running"
              /\ ~watcher.closed /\ watcher.watches # {})
             => ENABLED LoopRecvEvent

\* A callback is executing and the loop has meanwhile taken a change of
\* its directory and reset its timer.
C15_Witness ==
    \E k \in DOMAIN timers :
        /\ timers[k].cb # 0 /\ cbRunning[timers[k].cb] > 0
        /\ timers[k].armed
        /\ hist.age[k] >= 0 /\ hist.age[k] < Debounce

\* ----------------------------------------------------------------------- C16
\* The keys fixed at setup: the executable's path and the additional
\* directories in their absolute form.
SetupKeys == {Exe} \cup { AbsForm(additional[i].path) : i \in DOMAIN additional }

\* C16: the map of timers is complete before the loop starts and before
\* any directory is subscribed, and from then on no key is inserted or
\* removed and no timer is replaced: only the deadlines change.
C16_TimerKeysFixed ==
    /\ []((loopPc # "notstarted" \/ watcher.watches # {})
            => DOMAIN timers = SetupKeys)
    /\ [][loopPc # "notstarted" =>
            /\ DOMAIN timers' = DOMAIN timers
            /\ \A k \in DOMAIN timers : timers'[k].cb = timers[k].cb]_vars

\* The loop runs over three keys, a callback has run and a timer is armed
\* again: the deadlines have changed, the keys have not.
C16_Witness ==
    /\ loopPc = "running"
    /\ Cardinality(DOMAIN timers) = 3
    /\ hist.cbRuns >= 1
    /\ \E k \in DOMAIN timers : timers[k].armed /\ timers[k].left < Debounce

\* ----------------------------------------------------------------------- C17
\* C17: the timers are created stopped.  A timer that no qualifying,
\* matching event has reset is not pending; the Exec of the restart timer
\* begins, and a directory's callback begins, only when the loop has taken
\* such an event for that path and 100 ms have passed since; and with no
\* Exec called by hand, nothing restarts before such an event.
C17_TimersCreatedStopped ==
    /\ [](\A k \in DOMAIN timers : hist.age[k] < 0 => ~timers[k].armed)
    /\ []((\A e \in Invocations : execs[e].origin # "manual") =>
            (Invocations # {} =>
               ExeRegistered /\ hist.age[Exe] >= 0))
    /\ [][\A e \in DOMAIN execs :
            (execs[e].pc = "free" /\ execs'[e].pc # "free"
             /\ execs'[e].origin = "timer")
            => (ExeRegistered /\ hist.age[Exe] >= Debounce)]_vars
    /\ [][\A i \in DOMAIN cbRunning :
            cbRunning'[i] > cbRunning[i] =>
              \E k \in DOMAIN timers :
                  timers[k].cb = i /\ hist.age[k] >= Debounce]_vars

\* Do has started and a directory's callback has run 100 ms after a change
\* in it, while the executable, registered and never changed, has led to
\* no restart.
C17_Witness ==
    /\ doPc = "waitDone" /\ ExeRegistered
    /\ hist.age[Exe] < 0 /\ ~timers[Exe].armed /\ Invocations = {}
    /\ \E k \in DOMAIN timers :
          /\ timers[k].cb \in hist.ran
          /\ hist.age[k] = Debounce /\ hist.fires[k] = 1

\* ----------------------------------------------------------------------- C18
\* C18: when binSelf is empty and self() fails, every Exec ends in the
\* panic of line 174 and in nothing else: the watcher is not closed, also
\* when closeWatcher is set, the hook is not invoked, and no image
\* replacement is attempted.
C18_ResolveFailureAborts ==
    (binSelf = <<>> /\ self.err) =>
        /\ \A e \in Invocations :
              /\ execs[e].steps = <<"panic: self">>
              /\ execs[e].pc = "panicked"
              /\ proc = "crashed"
        /\ hist.closeCalls = 0 /\ ~watcher.closed
        /\ hist.hookRuns = 0
        /\ hist.calls = <<>> /\ proc # "replaced"

\* Do has set closeWatcher and failed to find the executable, a hook is
\* set, and an Exec called after that has panicked.
C18_Witness ==
    /\ binSelf = <<>> /\ self.err
    /\ closeWatcher /\ OnExec
    /\ doPc = "returned" /\ doErr = "self"
    /\ \E e \in Invocations : execs[e].pc = "panicked"
    /\ proc = "crashed"

\* ----------------------------------------------------------------------- C19
\* C19: the timer of an additional directory D is reset only by an event
\* of a file in D: every directory timer the last event reset is the one
\* of the directory the event's file lies in, also when another watched
\* directory's path begins with the characters of D's path.
C19_OnlyOwnDirArms ==
    \A k \in hist.reset \ {Exe} : Dir(hist.ev) = k

====
